---- MODULE Spec2Model ----
(***************************************************************************)
(* Model of script.js: the parallax starfield drawn on the #bg canvas      *)
(* (resize, the star pool, the draw frame callback) and the decorative     *)
(* overlay effects of the stage (sparkles, login overlay, gacha            *)
(* surprises) with the timers they schedule.                               *)
(*                                                                         *)
(* Numbers.  JavaScript numbers are modelled as fixed-point integers:      *)
(*   time            milliseconds (performance.now(), rAF timestamps, dt)  *)
(*   x, y            1/PosScale of a CSS pixel                             *)
(*   spd             1/SpdDen of a pixel per second                        *)
(*   r               1/SizeDen of a pixel                                  *)
(*   tw              1/TwDen                                               *)
(*   t (phase)       1/MsPerSec of a radian                                *)
(*   sin, alpha      1/MsPerSec; the alpha of a fill style 1/100           *)
(*   dpr             1/DprDen                                              *)
(* Math.random() is modelled by Rnd(seed, n)/RandDen, the n-th draw of a   *)
(* run whose seed is chosen in Init.                                       *)
(***************************************************************************)
EXTENDS Integers, Sequences, FiniteSets, TLC

VARIABLES
  dpr,          \* const dpr                      (line 8)
  vw, vh,       \* logical size in CSS pixels     (line 9)
  cw, ch,       \* backing store size             (line 9)
  canvas,       \* canvas.width/height, canvas.style.width/height
  xform,        \* ctx transform: the uniform scale factor, in 1/DprDen
  stars,        \* const stars = []               (line 35)
  last,         \* let last                       (line 50)
  dt,           \* const dt of the latest draw    (line 52)
  frame,        \* the calls the latest draw made on ctx and the host, in order
  rafDraw,      \* number of pending requestAnimationFrame(draw) callbacks
  clock,        \* performance.now() of the host
  started,      \* the draw callback has run at least once
  nresizes,     \* number of resize events delivered so far
  stage,        \* children appended to .stage by the effects
  timers,       \* pending setTimeout callbacks
  rafSpans,     \* spans whose requestAnimationFrame callback is pending
  nextId,       \* next element / timer identity
  lastSparkle,  \* let lastSparkle                (line 95)
  banner,       \* banner.textContent, or NoBanner when the h1 is absent
  overlayShown, \* overlay.classList contains 'show'
  accessText,   \* accessText.textContent
  nevents       \* number of user events delivered so far

vars == <<dpr, vw, vh, cw, ch, canvas, xform, stars, last, dt, frame, rafDraw, clock,
          started, nresizes, stage, timers, rafSpans, nextId, lastSparkle,
          banner, overlayShown, accessText, nevents>>

starVars == <<stars, last, dt, frame, rafDraw, started>>
surfaceVars == <<vw, vh, cw, ch, canvas, xform, nresizes>>
fxVars == <<stage, timers, rafSpans, nextId, lastSparkle, banner,
            overlayShown, accessText, nevents>>

----------------------------------------------------------------------------
(* Units *)

MsPerSec == 1000
SpdDen == 4
SizeDen == 1000
TwDen == 100
DprDen == 4
PosScale == SpdDen * MsPerSec * 5

Min(a, b) == IF a < b THEN a ELSE b
Max(a, b) == IF a > b THEN a ELSE b

\* Math.floor of the rational n/d, d > 0 (\div rounds towards minus infinity)
Floor(n, d) == n \div d

\* Math.round of the rational n/d, d > 0: nearest integer, halves go up
Round(n, d) == (2 * n + d) \div (2 * d)

----------------------------------------------------------------------------
(* Bounds of the model *)

RandDen == 8
MaxTime == 1150
WarmupEnd == 60
MaxTimeAll == 130
MaxResizes == 1
LoadTime == 30
MaxEvents == 2
MaxSteps == 3
MaxTimeHeal == 2400
ResizeUntil == 300

\* the sequences of values Math.random() returns, by seed of Rnd
Seeds == {0}

\* window.innerWidth x window.innerHeight the host may report
Viewports == { <<7, 5>>, <<24, 18>> }

\* window.devicePixelRatio the host may report, in 1/DprDen
\* (0 stands for a missing or zero value)
PixelRatios == { 0, 2, 6, 12 }

\* time between two events, ms
TickDeltas == { 0, 16, 100 }

\* how far the frame timestamp handed to a callback may lie before the
\* clock reading at the time the callback runs, ms
FrameLags == { 0, 5 }

\* time between a user event and the event before it, ms
EventDeltas == { 40, 1000 }

\* the same, for the runs that interleave user events with frames
QuickDeltas == { 40 }

----------------------------------------------------------------------------
(* Surface Manager *)

\* const dpr = Math.max(1, Math.min(2, window.devicePixelRatio || 1))
ClampDpr(ratio) ==
  LET given == IF ratio = 0 THEN DprDen ELSE ratio
  IN  Max(DprDen, Min(2 * DprDen, given))

\* deviceSize with Math.round in place of Math.floor
deviceSizeRounded(v, scale) == Round(v * scale, DprDen)

\* Math.floor(v * dpr), the size of the backing store along one axis
deviceSize(v, scale) == Floor(v * scale, DprDen)

\* the transform of a context nothing has scaled: the identity
IdentityScale == DprDen

\* ctx.scale(f, f) on a context whose transform is the uniform scale cur
ctxScale(cur, f) == (cur * f) \div DprDen

\* transformAfterResize without the reset: the scale is applied on top of
\* the transform the context has
transformStacked(cur, scale) == ctxScale(cur, scale)

\* ctx.setTransform(1, 0, 0, 1, 0, 0); ctx.scale(dpr, dpr) on a context
\* whose transform is cur
transformAfterResize(cur, scale) == ctxScale(IdentityScale, scale)

\* the assignments of resize() for a viewport of w x h and pixel scale
\* `scale`, on a context whose transform is cur
resizeState(w, h, scale, cur) ==
  LET c == [w |-> deviceSize(w, scale), h |-> deviceSize(h, scale)]
  IN  [vw |-> w, vh |-> h, cw |-> c.w, ch |-> c.h,
       canvas |-> [width |-> c.w, height |-> c.h, styleW |-> w, styleH |-> h],
       xform |-> transformAfterResize(cur, scale)]

----------------------------------------------------------------------------
(* Entity Pool *)

layers == <<
  [count |-> 80, size |-> <<SizeDen, (16 * SizeDen) \div 10>>, speed |-> <<10 * SpdDen, 18 * SpdDen>>,
   color |-> "rgba(154,223,255,0.55)"],
  [count |-> 60, size |-> <<(12 * SizeDen) \div 10, (22 * SizeDen) \div 10>>,
   speed |-> <<18 * SpdDen, 30 * SpdDen>>,
   color |-> "rgba(255,243,170,0.55)"],
  [count |-> 40, size |-> <<(16 * SizeDen) \div 10, (28 * SizeDen) \div 10>>,
   speed |-> <<30 * SpdDen, 48 * SpdDen>>,
   color |-> "rgba(177,140,255,0.55)"] >>

\* Math.PI * 2 in 1/MsPerSec radians, rounded down
TwoPi == 6283

\* the n-th value Math.random() returns, as a numerator over RandDen
Rnd(seed, n) == (seed + (n % 6) * (n \div 6) + (n \div 6) + (n \div 48)) % RandDen

\* rand that scales by max instead of max - min
randUnshifted(min, max, k) == (k * max) \div RandDen + min

\* rand(min, max) with Math.random() = k/RandDen
rand(min, max, k) == (k * (max - min)) \div RandDen + min

\* number of stars pushed before layer l starts
RECURSIVE StarsBefore(_)
StarsBefore(l) == IF l = 1 THEN 0 ELSE StarsBefore(l - 1) + layers[l - 1].count

TotalStars == StarsBefore(Len(layers) + 1)

\* the layer whose inner loop pushes the i-th star
LayerOf(i) == CHOOSE l \in 1 .. Len(layers) :
                 StarsBefore(l) < i /\ i <= StarsBefore(l) + layers[l].count

\* the object pushed for the i-th star
newStar(seed, i, w, h) ==
  LET layer == layers[LayerOf(i)]
      n == 6 * (i - 1)
  IN  [x   |-> rand(0, w * PosScale, Rnd(seed, n)),
       y   |-> rand(0, h * PosScale, Rnd(seed, n + 1)),
       r   |-> rand(layer.size[1], layer.size[2], Rnd(seed, n + 2)),
       spd |-> rand(layer.speed[1], layer.speed[2], Rnd(seed, n + 3)),
       hue |-> layer.color,
       tw  |-> rand((6 * TwDen) \div 10, TwDen, Rnd(seed, n + 4)),
       t   |-> rand(0, TwoPi, Rnd(seed, n + 5))]

buildStars(seed, w, h) == [i \in 1 .. TotalStars |-> newStar(seed, i, w, h)]

----------------------------------------------------------------------------
(* Simulation Step *)

\* 0.04 s
DtCap == 40

\* const dt = Math.min(0.04, (now - last) / 1000)
frameDt(now, prev) == Min(DtCap, now - prev)

\* driftX to the right
driftXRight(s, d) == s.x + (s.spd * d * 6 * (PosScale \div (SpdDen * MsPerSec))) \div 10

\* s.x -= s.spd * dt * 0.6
driftX(s, d) == s.x - (s.spd * d * 6 * (PosScale \div (SpdDen * MsPerSec))) \div 10

\* s.y += s.spd * dt * 0.4
driftY(s, d) == s.y + (s.spd * d * 4 * (PosScale \div (SpdDen * MsPerSec))) \div 10

\* wrapX that re-enters at vw instead of vw + 10
wrapXAtEdge(x, w) == IF x < -10 * PosScale THEN w * PosScale ELSE x

\* if (s.x < -10) s.x = vw + 10
wrapX(x, w) == IF x < -10 * PosScale THEN (w + 10) * PosScale ELSE x

\* wrapY that tests the top edge, as the x wrap tests the left edge
wrapYMirrored(y, h) == IF y < -10 * PosScale THEN (h + 10) * PosScale ELSE y

\* if (s.y > vh + 10) s.y = -10
wrapY(y, h) == IF y > (h + 10) * PosScale THEN -10 * PosScale ELSE y

\* advance whose phase step ignores dt
advanceFixedPhase(s, d, w, h) ==
  [s EXCEPT !.x = wrapX(driftX(s, d), w),
            !.y = wrapY(driftY(s, d), h),
            !.t = s.t + 4]

\* advance whose phase step caps dt itself
advanceCappedPhase(s, d, w, h) ==
  [s EXCEPT !.x = wrapX(driftX(s, d), w),
            !.y = wrapY(driftY(s, d), h),
            !.t = s.t + Min(d, DtCap) * 4]

\* the body of the for loop of draw, for one star
advance(s, d, w, h) ==
  [s EXCEPT !.x = wrapX(driftX(s, d), w),
            !.y = wrapY(driftY(s, d), h),
            !.t = s.t + d * 4]

\* a star s that has been through some ticks, with whether one of the tests
\* of lines 69-70 fired in them
Run(s, wrapped) == [s |-> s, wrapped |-> wrapped]

\* one more tick of d on the star of run r
runTick(r, d, w, h) ==
  LET s == advance(r.s, d, w, h)
  IN  Run(s, r.wrapped \/ s.x # driftX(r.s, d) \/ s.y # driftY(r.s, d))

\* n more ticks of the same d on the same surface
RECURSIVE runTicks(_, _, _, _, _)
runTicks(r, n, d, w, h) ==
  IF n = 0 THEN r ELSE runTicks(runTick(r, d, w, h), n - 1, d, w, h)

----------------------------------------------------------------------------
(* Compositor *)

\* Math.sin(t) in 1/MsPerSec, t in 1/MsPerSec radians: the phase is
\* reduced to one turn and each half turn follows Bhaskara's rational
\* approximation 16 x (pi - x) / (5 pi^2 - 4 x (pi - x)), which is 0 at 0
\* and pi and exactly 1 at pi/2.  Angles are doubled so that pi is TwoPi,
\* and both sides of the quotient are divided by 128 to stay within 32 bits.
halfTurnSin(x) ==
  LET q == x * (TwoPi - x)
  IN  ((q \div 8) * MsPerSec) \div ((5 * TwoPi * TwoPi - 4 * q) \div 128)

Sin(t) ==
  LET x == 2 * (t % TwoPi)
  IN  IF x <= TwoPi THEN halfTurnSin(x) ELSE 0 - halfTurnSin(x - TwoPi)

\* starAlpha with a twinkle depth of 0.5 in place of 0.3
starAlphaDeep(t) == 700 * MsPerSec + Sin(t) * 500

\* let alpha = 0.7 + Math.sin(s.t) * 0.3, in 1/MsPerSec^2
starAlpha(t) == 700 * MsPerSec + Sin(t) * 300

\* (0.35 + alpha * 0.35).toFixed(2), in 1/100: toFixed rounds to the
\* nearest hundredth
fillAlpha(alpha) == Round(350 * MsPerSec * MsPerSec + alpha * 350, 10 * MsPerSec * MsPerSec)

\* one call recorded in `frame`
Call(op, x, y, r, style, alpha, blur) ==
  [op |-> op, x |-> x, y |-> y, r |-> r, style |-> style, alpha |-> alpha,
   blur |-> blur]

\* ctx.clearRect(0, 0, vw, vh)
clearCall(w, h) == Call("clearRect", w, h, 0, "", 0, 0)

\* the radial gradient around (vw/2, vh/2) out to Math.max(vw, vh), and
\* ctx.fillRect(0, 0, vw, vh) with it
vignetteCall(w, h) == Call("fillRect", w, h, Max(w, h), "vignette", 0, 0)

\* beginPath, arc(s.x, s.y, s.r, 0, 2 pi), fillStyle with the alpha put in
\* place of 0.55, shadowBlur 8 with colour #9adfff, fill, shadowBlur 0
starCall(s) == Call("fill", s.x, s.y, s.r, s.hue, fillAlpha(starAlpha(s.t)), 8)

\* requestAnimationFrame(draw)
rafCall == Call("requestAnimationFrame", 0, 0, 0, "draw", 0, 0)

\* the pool once the for loop of draw has run its first i iterations: the
\* stars up to the i-th are advanced and wrapped in place, the later ones
\* are as the tick found them
poolAfter(ss, i, d, w, h) ==
  [j \in 1..Len(ss) |-> IF j <= i THEN advance(ss[j], d, w, h) ELSE ss[j]]

\* drawStar drawing the star as the iteration found it
drawStarStale(ss, i, d, w, h) == starCall(poolAfter(ss, i - 1, d, w, h)[i])

\* the call the i-th iteration of the loop makes: it draws the i-th star as
\* that iteration has just left it
drawStar(ss, i, d, w, h) == starCall(poolAfter(ss, i, d, w, h)[i])

\* the calls of one draw(now): clear, vignette, one call per iteration of
\* the loop in insertion order, and the request for the next frame
drawCalls(ss, d, w, h) ==
  <<clearCall(w, h), vignetteCall(w, h)>>
    \o [i \in 1..Len(ss) |-> drawStar(ss, i, d, w, h)]
    \o <<rafCall>>

----------------------------------------------------------------------------
(* Overlay effects: elements of the stage and timers *)

\* banner.textContent as the page ships it, the text bannerSwap shows, and
\* the value of `banner` when the page has no .banner h1
BannerText == "ORIGINAL"
SwapText == "ULTRA RARE"
NoBanner == "<null>"

\* a child of .stage.  kind: the effect it belongs to; by: the handler
\* that created it; born: the clock reading at creation; opacity: its
\* style.opacity ("" when never set).  Positions, sizes and glyphs, which
\* no handler reads back, are not part of the state.
Element(id, kind, by, opacity) ==
  [id |-> id, kind |-> kind, by |-> by, born |-> clock', opacity |-> opacity]

\* a pending setTimeout(fn, delay) set at the clock reading of the handler
Timer(id, fn, el, delay, old) ==
  [id |-> id, fn |-> fn, el |-> el, due |-> clock' + delay, old |-> old]

\* the elements and timers that n calls of sparkle(x, y) create, with
\* identities first .. first + n - 1
sparkleEls(first, n, by) ==
  { Element(id, "sparkle", by, "") : id \in first .. (first + n - 1) }

\* sparkleTimers with a removal delay of 9000 ms
sparkleTimersLate(first, n) ==
  { Timer(id, "remove", id, 9000, "") : id \in first .. (first + n - 1) }

sparkleTimers(first, n) ==
  { Timer(id, "remove", id, 900, "") : id \in first .. (first + n - 1) }

\* the 28 spans of surprises.confetti and their removal timers
ConfettiCount == 28

confettiEls(first) ==
  { Element(id, "confetti", "gacha", "") : id \in first .. (first + ConfettiCount - 1) }

confettiTimers(first) ==
  { Timer(id, "remove", id, 1000, "") : id \in first .. (first + ConfettiCount - 1) }

\* el.remove(): detaching an element that is not attached does nothing
removeEl(els, id) == { e \in els : e.id # id }

\* el.style.opacity = v on the element id, attached or not
setOpacity(els, id, v) ==
  { IF e.id = id THEN [e EXCEPT !.opacity = v] ELSE e : e \in els }

\* the timer the host runs next: the earliest due, oldest first
NextTimer(k) ==
  /\ k \in timers
  /\ \A j \in timers : k.due < j.due \/ (k.due = j.due /\ k.id <= j.id)

\* the elements after each span of `ids` that is still attached got
\* style.opacity = '0' (and its flight transform)
fadeAll(els, ids) ==
  LET hit == { ids[i] : i \in DOMAIN ids }
  IN  { IF e.id \in hit THEN [e EXCEPT !.opacity = "0"] ELSE e : e \in els }

----------------------------------------------------------------------------
(* Initial state: the script has run to its end *)

\* the state the script leaves behind for the given host values;
\* hasBanner tells whether document.querySelector('.banner h1') found the h1
InitWith(ratio, vp, seed, hasBanner) ==
    /\ dpr = ClampDpr(ratio)
    /\ LET rs == resizeState(vp[1], vp[2], ClampDpr(ratio), IdentityScale)
       IN  /\ vw = rs.vw /\ vh = rs.vh
           /\ cw = rs.cw /\ ch = rs.ch
           /\ canvas = rs.canvas
           /\ xform = rs.xform
    /\ stars = buildStars(seed, vp[1], vp[2])
    /\ clock = LoadTime
    /\ last = LoadTime
    /\ dt = 0
    /\ frame = <<>>
    /\ rafDraw = 1
    /\ started = FALSE
    /\ nresizes = 0
    /\ stage = {}
    /\ timers = {}
    /\ rafSpans = <<>>
    /\ nextId = 1
    /\ lastSparkle = 0
    /\ banner = IF hasBanner THEN BannerText ELSE NoBanner
    /\ overlayShown = FALSE
    /\ accessText = ""
    /\ nevents = 0

\* the starfield on any surface; the banner plays no part in it
InitStars ==
  \E ratio \in PixelRatios, vp \in Viewports, seed \in Seeds :
    InitWith(ratio, vp, seed, TRUE)

----------------------------------------------------------------------------
(* Handlers *)

\* no timer is due at time tm or before: the host runs the timers that
\* have fallen due before it delivers an event or runs a frame
NoTimerBefore(tm) == \A k \in timers : k.due > tm

\* Resize that also pulls the stars into the new surface
ResizeClampingStars(w, h, d) ==
  /\ NoTimerBefore(clock + d)
  /\ clock' = clock + d
  /\ LET rs == resizeState(w, h, dpr, xform)
     IN  /\ vw' = rs.vw /\ vh' = rs.vh
         /\ cw' = rs.cw /\ ch' = rs.ch
         /\ canvas' = rs.canvas
         /\ xform' = rs.xform
  /\ nresizes' = nresizes + 1
  /\ stars' = [i \in DOMAIN stars |->
                [stars[i] EXCEPT !.x = Min(@, w * PosScale),
                                 !.y = Min(@, h * PosScale)]]
  /\ UNCHANGED <<dpr, last, dt, frame, rafDraw, started, fxVars>>

\* window 'resize' event: resize()
Resize(w, h, d) ==
  /\ NoTimerBefore(clock + d)
  /\ clock' = clock + d
  /\ LET rs == resizeState(w, h, dpr, xform)
     IN  /\ vw' = rs.vw /\ vh' = rs.vh
         /\ cw' = rs.cw /\ ch' = rs.ch
         /\ canvas' = rs.canvas
         /\ xform' = rs.xform
  /\ nresizes' = nresizes + 1
  /\ UNCHANGED <<dpr, starVars, fxVars>>

\* rafAfterDraw without the request of line 81
rafAfterDrawOnly(pending) == pending - 1

\* the pending draw callbacks after one has run and has called
\* requestAnimationFrame(draw) once
rafAfterDraw(pending) == (pending - 1) + 1

\* frame callback draw(now); now = clock + d - lag.  Frame timestamps never
\* decrease from one frame to the next, but the first one may lie before
\* the clock reading taken at load (line 50).
Draw(d, lag) ==
  LET now == clock + d - lag
      newDt == frameDt(now, last)
  IN  /\ rafDraw > 0
      /\ NoTimerBefore(clock + d)
      /\ now >= 0
      /\ started => now >= last
      /\ clock' = clock + d
      /\ dt' = newDt
      /\ last' = now
      /\ stars' = poolAfter(stars, Len(stars), newDt, vw, vh)
      /\ frame' = drawCalls(stars, newDt, vw, vh)
      /\ rafDraw' = rafAfterDraw(rafDraw)
      /\ started' = TRUE
      /\ UNCHANGED <<dpr, surfaceVars, fxVars>>

\* the mousemove test with >= in place of >
sparkleAllowedInclusive(now) == now - lastSparkle >= 40

\* if (now - lastSparkle > 40)
sparkleAllowed(now) == now - lastSparkle > 40

\* stage 'mousemove' listener
MouseMove(d) ==
  /\ NoTimerBefore(clock + d)
  /\ clock' = clock + d
  /\ IF sparkleAllowed(clock')
       THEN /\ stage' = stage \cup sparkleEls(nextId, 1, "mousemove")
            /\ timers' = timers \cup sparkleTimers(nextId, 1)
            /\ nextId' = nextId + 1
            /\ lastSparkle' = clock'
       ELSE UNCHANGED <<stage, timers, nextId, lastSparkle>>
  /\ nevents' = nevents + 1
  /\ UNCHANGED <<dpr, starVars, surfaceVars, rafSpans, banner, overlayShown, accessText>>

\* stage 'click' listener, for a click that does not hit a sticker
Click(d) ==
  /\ NoTimerBefore(clock + d)
  /\ clock' = clock + d
  /\ stage' = stage \cup sparkleEls(nextId, 1, "click")
  /\ timers' = timers \cup sparkleTimers(nextId, 1)
  /\ nextId' = nextId + 1
  /\ nevents' = nevents + 1
  /\ UNCHANGED <<dpr, starVars, surfaceVars, rafSpans, lastSparkle, banner,
                 overlayShown, accessText>>

\* a click on the sticker `id`: its own 'click' listener removes it, then
\* the event bubbles to the stage 'click' listener
StickerClick(id, d) ==
  /\ \E e \in stage : e.id = id /\ e.kind = "sticker"
  /\ NoTimerBefore(clock + d)
  /\ clock' = clock + d
  /\ stage' = removeEl(stage, id) \cup sparkleEls(nextId, 1, "click")
  /\ timers' = timers \cup sparkleTimers(nextId, 1)
  /\ nextId' = nextId + 1
  /\ nevents' = nevents + 1
  /\ UNCHANGED <<dpr, starVars, surfaceVars, rafSpans, lastSparkle, banner,
                 overlayShown, accessText>>

\* form 'submit' listener
Submit(d) ==
  /\ NoTimerBefore(clock + d)
  /\ clock' = clock + d
  /\ overlayShown' = TRUE
  /\ accessText' = "VERIFYING"
  /\ timers' = timers \cup { Timer(nextId, "grant", 0, 900, ""),
                             Timer(nextId + 1, "hide", 0, 2400, "") }
  /\ nextId' = nextId + 2
  /\ nevents' = nevents + 1
  /\ UNCHANGED <<dpr, starVars, surfaceVars, stage, rafSpans, lastSparkle, banner>>

\* surprises.confetti
Confetti ==
  /\ stage' = stage \cup confettiEls(nextId)
  /\ timers' = timers \cup confettiTimers(nextId)
  /\ rafSpans' = rafSpans \o [i \in 1 .. ConfettiCount |-> nextId + i - 1]
  /\ nextId' = nextId + ConfettiCount
  /\ UNCHANGED banner

\* surprises.neonFlash
NeonFlash ==
  /\ stage' = stage \cup { Element(nextId, "neon", "gacha", "1") }
  /\ timers' = timers \cup { Timer(nextId, "fade", nextId, 40, ""),
                             Timer(nextId + 1, "remove", nextId, 700, "") }
  /\ nextId' = nextId + 2
  /\ UNCHANGED <<rafSpans, banner>>

\* surprises.sticker
Sticker ==
  /\ stage' = stage \cup { Element(nextId, "sticker", "gacha", "") }
  /\ timers' = timers \cup { Timer(nextId, "remove", nextId, 12000, "") }
  /\ nextId' = nextId + 1
  /\ UNCHANGED <<rafSpans, banner>>

\* surprises.bannerSwap
BannerSwap ==
  IF banner = NoBanner
    THEN UNCHANGED <<stage, timers, rafSpans, nextId, banner>>
    ELSE /\ banner' = SwapText
         /\ timers' = timers \cup { Timer(nextId, "restore", 0, 3600, banner) }
         /\ nextId' = nextId + 1
         /\ UNCHANGED <<stage, rafSpans>>

\* Object.keys(surprises)
SurpriseKeys == { "confetti", "neonFlash", "sticker", "bannerSwap" }

\* gachaBtn 'click' listener; pick is the key Math.random() selects
Gacha(pick, d) ==
  /\ NoTimerBefore(clock + d)
  /\ clock' = clock + d
  /\ CASE pick = "confetti"   -> Confetti
       [] pick = "neonFlash"  -> NeonFlash
       [] pick = "sticker"    -> Sticker
       [] pick = "bannerSwap" -> BannerSwap
  /\ nevents' = nevents + 1
  /\ UNCHANGED <<dpr, starVars, surfaceVars, lastSparkle, overlayShown, accessText>>

\* the callbacks that confetti passed to requestAnimationFrame, run together
\* in one frame: each sets the transform and opacity of its span
ConfettiFrame ==
  /\ rafSpans # <<>>
  /\ NoTimerBefore(clock)
  /\ stage' = fadeAll(stage, rafSpans)
  /\ rafSpans' = <<>>
  /\ UNCHANGED <<dpr, starVars, surfaceVars, clock, timers, nextId, lastSparkle,
                 banner, overlayShown, accessText, nevents>>

\* the host runs the setTimeout callback k when it falls due
TimerFire(k) ==
  /\ NextTimer(k)
  /\ clock' = Max(clock, k.due)
  /\ CASE k.fn = "remove" ->
            /\ stage' = removeEl(stage, k.el)
            /\ timers' = timers \ {k}
            /\ UNCHANGED <<nextId, banner, overlayShown, accessText>>
       [] k.fn = "fade" ->
            /\ stage' = setOpacity(stage, k.el, "0")
            /\ timers' = timers \ {k}
            /\ UNCHANGED <<nextId, banner, overlayShown, accessText>>
       [] k.fn = "restore" ->
            /\ banner' = k.old
            /\ timers' = timers \ {k}
            /\ UNCHANGED <<stage, nextId, overlayShown, accessText>>
       [] k.fn = "grant" ->
            /\ accessText' = "ACCESS GRANTED"
            /\ stage' = stage \cup sparkleEls(nextId, 14, "login")
            /\ timers' = (timers \ {k}) \cup sparkleTimers(nextId, 14)
            /\ nextId' = nextId + 14
            /\ UNCHANGED <<banner, overlayShown>>
       [] k.fn = "hide" ->
            /\ overlayShown' = FALSE
            /\ timers' = timers \ {k}
            /\ UNCHANGED <<stage, nextId, banner, accessText>>
  /\ UNCHANGED <<dpr, starVars, surfaceVars, rafSpans, lastSparkle, nevents>>

----------------------------------------------------------------------------
(* Specifications *)

\* the starfield alone: frames and resize events
NextStars ==
  \/ \E d \in TickDeltas, lag \in FrameLags :
       /\ clock + d <= MaxTime
       /\ (d < DtCap => clock < WarmupEnd)
       /\ (lag = 0 \/ ~started)
       /\ Draw(d, lag)
  \/ \E vp \in Viewports :
       nresizes < MaxResizes /\ Resize(vp[1], vp[2], 0)

SpecStars == InitStars /\ [][NextStars]_vars

\* the overlay effects alone, on one surface
InitFx == \E hasBanner \in BOOLEAN : InitWith(0, <<24, 18>>, 0, hasBanner)

NextFx ==
  \/ \E d \in EventDeltas : nevents < MaxEvents /\ MouseMove(d)
  \/ \E d \in EventDeltas : nevents < MaxEvents /\ Click(d)
  \/ \E d \in EventDeltas, e \in stage : nevents < MaxEvents /\ StickerClick(e.id, d)
  \/ \E d \in EventDeltas : nevents < MaxEvents /\ Submit(d)
  \/ \E d \in EventDeltas, pick \in SurpriseKeys : nevents < MaxEvents /\ Gacha(pick, d)
  \/ ConfettiFrame
  \/ \E k \in timers : TimerFire(k)

SpecFx == InitFx /\ [][NextFx]_vars

\* everything together, from one initial surface and over a short time:
\* late frames, resize events that shrink the surface, user events in
\* quick succession and timers
InitAll == InitWith(6, <<24, 18>>, 0, TRUE)

NextAll ==
  \/ \E d \in TickDeltas :
       clock + d <= MaxTimeAll /\ d >= DtCap /\ Draw(d, 0)
  \/ \E vp \in Viewports :
       nresizes < MaxResizes /\ vp[1] < vw /\ Resize(vp[1], vp[2], 0)
  \/ \E d \in QuickDeltas : nevents < MaxEvents /\ MouseMove(d)
  \/ \E d \in QuickDeltas : nevents < MaxEvents /\ Click(d)
  \/ \E d \in QuickDeltas, e \in stage : nevents < MaxEvents /\ StickerClick(e.id, d)
  \/ \E d \in QuickDeltas : nevents < MaxEvents /\ Submit(d)
  \/ \E d \in QuickDeltas, pick \in SurpriseKeys : nevents < MaxEvents /\ Gacha(pick, d)
  \/ ConfettiFrame
  \/ \E k \in timers : TimerFire(k)

SpecAll == InitAll /\ [][NextAll]_vars

\* the frame loop over a long run: a tick of dt > 0 keeps arriving, and the
\* window is made smaller at most once, early in the run
HealTick ==
  \E d \in TickDeltas :
    /\ d > 0
    /\ clock + d <= MaxTimeHeal
    /\ (d < DtCap => clock < WarmupEnd)
    /\ Draw(d, 0)

HealResize ==
  \E vp \in Viewports :
    /\ nresizes < MaxResizes
    /\ clock <= ResizeUntil
    /\ vp[1] < vw
    /\ Resize(vp[1], vp[2], 0)

NextHeal == HealTick \/ HealResize

\* draw requests its next frame in every tick (line 81) and the host runs a
\* pending frame callback, so a tick that can run does run
SpecHeal == InitAll /\ [][NextHeal]_vars /\ WF_vars(HealTick)

----------------------------------------------------------------------------
(* Properties *)

\* a step that runs the frame callback draw
DrawStep == \E d \in TickDeltas, lag \in FrameLags : Draw(d, lag)

\* a step that runs the stage 'click' listener
ClickStep ==
  \E d \in EventDeltas \cup QuickDeltas :
    Click(d) \/ \E e \in stage : StickerClick(e.id, d)

StarIds == 1 .. Len(stars)

C2_DtClamped == 0 <= dt /\ dt <= 40

\* C3 (as stated): a tick whose dt is 0 leaves every star unchanged.
C3_ZeroDtNoOp == [][DrawStep /\ dt' = 0 => stars' = stars]_vars

\* C3 (amended): a tick whose dt is 0 leaves x and phase of every star
\* unchanged, and leaves y unchanged unless y > vh+10 (the star lies below
\* a surface that a resize made lower), in which case y becomes -10.
C3_ZeroDtNoOpAmended ==
  [][DrawStep /\ dt' = 0 =>
       \A i \in StarIds :
         /\ stars'[i].x = stars[i].x
         /\ stars'[i].t = stars[i].t
         /\ stars'[i].y = IF stars[i].y > (vh + 10) * PosScale
                            THEN -10 * PosScale ELSE stars[i].y]_vars

\* C3 witness: a tick with dt = 0 has run after a resize and has wrapped a
\* star that lay below the new surface, while another star kept its place.
C3_Witness ==
  /\ started /\ dt = 0 /\ nresizes > 0 /\ last = LoadTime
  /\ \E i \in StarIds : stars[i].y = -10 * PosScale
  /\ \E i \in StarIds : stars[i].y > 0

\* C4: one tick drifts each star by (-0.6, +0.4) * spd * dt, then wraps x
\* to vw+10 when the drifted x < -10 and, independently, y to -10 when the
\* drifted y > vh+10, with the surface dimensions current at that tick.
C4_WrapStep ==
  [][DrawStep =>
       \A i \in StarIds :
         LET dx == stars[i].x - stars[i].spd * dt' * 3
             dy == stars[i].y + stars[i].spd * dt' * 2
         IN  /\ stars'[i].x = IF dx < -200000 THEN vw * 20000 + 200000 ELSE dx
             /\ stars'[i].y = IF dy > vh * 20000 + 200000 THEN -200000 ELSE dy]_vars

\* C4 witness: one star has been wrapped on both axes by the same tick.
C4_Witness ==
  /\ started
  /\ \E i \in StarIds : /\ stars[i].x = (vw + 10) * PosScale
                        /\ stars[i].y = -10 * PosScale

\* C6: the pool holds 80 + 60 + 40 stars, each inside its layer's size and
\* speed ranges with twinkle amplitude in [0.6, 1.0]; at construction the
\* phase is in [0, 2*pi) and the position in [0, vw] x [0, vh]; no step adds
\* or removes a star or changes a radius, speed, tint or twinkle amplitude.
C6_InRange(s, size, speed) ==
  /\ size[1] <= s.r /\ s.r <= size[2]
  /\ speed[1] * SpdDen <= s.spd /\ s.spd <= speed[2] * SpdDen
  /\ 60 <= s.tw /\ s.tw <= 100

C6_Shape ==
  /\ Len(stars) = 180
  /\ \A i \in 1 .. 80    : C6_InRange(stars[i], <<1000, 1600>>, <<10, 18>>)
  /\ \A i \in 81 .. 140  : C6_InRange(stars[i], <<1200, 2200>>, <<18, 30>>)
  /\ \A i \in 141 .. 180 : C6_InRange(stars[i], <<1600, 2800>>, <<30, 48>>)

C6_Fresh ==
  \A i \in StarIds :
    /\ 0 <= stars[i].t /\ stars[i].t < 6284
    /\ 0 <= stars[i].x /\ stars[i].x <= vw * PosScale
    /\ 0 <= stars[i].y /\ stars[i].y <= vh * PosScale

C6_PoolShape ==
  /\ [](C6_Shape /\ (~started /\ nresizes = 0 => C6_Fresh))
  /\ [][/\ Len(stars') = Len(stars)
        /\ \A i \in StarIds : /\ stars'[i].r = stars[i].r
                              /\ stars'[i].spd = stars[i].spd
                              /\ stars'[i].tw = stars[i].tw
                              /\ stars'[i].hue = stars[i].hue]_vars

\* C6 witness: ticks and a resize have happened and the pool has moved.
C6_Witness ==
  /\ started /\ nresizes > 0 /\ clock >= LoadTime + 500
  /\ Len(stars) = 180

\* C5: no step other than the frame tick changes the star pool: resize,
\* sparkles, gacha effects, the login handler and every timer or frame
\* callback they schedule leave every star, and the number of stars, as is.
C5_OnlyTickMovesStars == [][~DrawStep => stars' = stars]_vars

\* C5 witness: the stars have drifted, and a resize, two user events and
\* all the timers they scheduled have run since the script loaded.
C5_Witness ==
  /\ started /\ nresizes > 0 /\ nevents >= 2
  /\ timers = {} /\ nextId > 1
  /\ \E i \in StarIds : stars[i].x < 0

\* C7 (as stated): once no banner timeout is pending, the banner shows the
\* text it had before the first trigger.
C7_BannerRestored ==
  (\A k \in timers : k.fn # "restore") => banner \in { BannerText, NoBanner }

\* C8: an effect element stays on the stage no longer than its timeout
\* (sparkle 900, confetti span 1000, neon flash 700, sticker 12000 ms);
\* once no timeout is pending the stage holds no effect element; and a
\* removal timeout detaches the element it was set for and nothing else,
\* also when a click has detached that element before.
C8_Lifetime(kind) ==
  CASE kind = "sparkle"  -> 900
    [] kind = "confetti" -> 1000
    [] kind = "neon"     -> 700
    [] kind = "sticker"  -> 12000

C8_EffectsCleanUp ==
  /\ [](/\ \A e \in stage : clock - e.born <= C8_Lifetime(e.kind)
        /\ timers = {} => stage = {})
  /\ [][\A k \in timers :
          (k.fn = "remove" /\ timers' = timers \ {k}) =>
             /\ stage' \subseteq stage
             /\ \A e \in stage \ stage' : e.id = k.el]_vars

\* C8 witness: a sticker has been removed by a click while its 12000 ms
\* timeout is still pending.
C8_Witness ==
  \E k \in timers :
    /\ k.fn = "remove" /\ k.due - clock > 1000
    /\ \A e \in stage : e.id # k.el

\* C9: two sparkles spawned by pointer-move events are more than 40 ms
\* apart; a click spawns a sparkle whatever the time and leaves lastSparkle
\* as it is.
C9_RateLimit ==
  /\ [](\A e1, e2 \in stage :
          (e1.by = "mousemove" /\ e2.by = "mousemove" /\ e1.born < e2.born)
            => e2.born - e1.born > 40)
  /\ [][ClickStep =>
          /\ lastSparkle' = lastSparkle
          /\ \E e \in stage' \ stage :
               e.kind = "sparkle" /\ e.by = "click" /\ e.born = clock']_vars

\* C9 witness: a pointer move spawned a sparkle and a second pointer move
\* 40 ms later spawned none.
C9_Witness ==
  /\ nevents = 2 /\ clock = lastSparkle + 40
  /\ \E e \in stage : e.by = "mousemove" /\ e.born = lastSparkle
  /\ Cardinality(stage) = 1

\* C10 (as stated): the backing store is round(logical * pixelScale) on
\* both axes, pixelScale being the device pixel ratio clamped to [1, 2].
C10_DeviceRounded ==
  /\ cw = Round(vw * dpr, DprDen)
  /\ ch = Round(vh * dpr, DprDen)

\* C10 (amended): the backing store is floor(logical * pixelScale) on both
\* axes, pixelScale being the device pixel ratio clamped to [1, 2].
C10_DeviceFloored ==
  /\ DprDen <= dpr /\ dpr <= 2 * DprDen
  /\ cw * DprDen <= vw * dpr /\ vw * dpr < (cw + 1) * DprDen
  /\ ch * DprDen <= vh * dpr /\ vh * dpr < (ch + 1) * DprDen
  /\ canvas.width = cw /\ canvas.height = ch

\* C10 witness: a resize event has set a backing store whose exact size
\* logical * pixelScale is not a whole number.
C10_Witness ==
  /\ nresizes > 0
  /\ (vw * dpr) % DprDen # 0
  /\ (vh * dpr) % DprDen # 0


\* the calls of the latest frame that draw a star
StarCalls == {n \in 1..Len(frame) : frame[n].op = "fill"}

\* C11: the alpha put into a star's tint, 0.35 + (0.7 + sin(phase) * 0.3) * 0.35,
\* lies within [0.35, 0.70] for every phase a star reaches, in every frame:
\* both the value computed from the phase and the two-decimal value that
\* each fill of the latest frame carries.
C11_AlphaRange ==
  /\ \A i \in StarIds :
       LET remapped == 350 * MsPerSec * MsPerSec + starAlpha(stars[i].t) * 350
       IN  /\ remapped >= 350 * MsPerSec * MsPerSec
           /\ remapped <= 700 * MsPerSec * MsPerSec
  /\ \A n \in StarCalls : frame[n].alpha >= 35 /\ frame[n].alpha <= 70

\* a frame has drawn one star at the crest of its twinkle and another at
\* the trough
C11_Witness ==
  /\ \E n \in StarCalls : frame[n].alpha = 70
  /\ \E n \in StarCalls : frame[n].alpha < 50


InsideBox(s, w, h) ==
  /\ -10 * PosScale <= s.x /\ s.x <= (w + 10) * PosScale
  /\ -10 * PosScale <= s.y /\ s.y <= (h + 10) * PosScale

AllInside == \A i \in StarIds : InsideBox(stars[i], vw, vh)

\* C17: self-healing after a resize.  When no further resize occurs and
\* ticks with dt > 0 keep arriving, every star that a resize left outside the
\* box of the new surface is inside it again after finitely many ticks, and
\* stays inside from then on.
C17_SelfHealing == <>[]AllInside

\* ticks are running on a surface whose resize left one star to the right of
\* the box and another below it
C17_Witness ==
  /\ started /\ nresizes > 0 /\ dt > 0
  /\ \E i \in StarIds : stars[i].x > (vw + 10) * PosScale
  /\ \E i \in StarIds : stars[i].y = -10 * PosScale


\* a step that runs the 'resize' listener
ResizeStep == \E vp \in Viewports : Resize(vp[1], vp[2], 0)

\* the calls of frame f that request a frame
FrameRequests(f) == {n \in 1..Len(f) : f[n].op = "requestAnimationFrame"}

\* C13: the frame loop never stops of its own accord.  Exactly one frame
\* callback for draw is pending at every moment between ticks; each tick
\* requests exactly one next tick; a resize neither cancels nor adds a
\* pending callback and leaves lastTimestamp as it is.
C13_FrameLoop ==
  /\ [](rafDraw = 1)
  /\ [][DrawStep => Cardinality(FrameRequests(frame')) = 1]_vars
  /\ [][ResizeStep => (rafDraw' = rafDraw /\ last' = last)]_vars

\* ticks have run, the window has been resized, and the frame callbacks of
\* a burst of confetti are pending next to the one for draw
C13_Witness ==
  /\ started /\ nresizes > 0 /\ rafDraw = 1
  /\ Len(rafSpans) > 0
  /\ Cardinality(FrameRequests(frame)) = 1


\* C14 (as stated): every star's phase is monotonically non-decreasing: a
\* tick leaves it at least where it was, whatever timestamp the tick is
\* given, and no other operation changes it.
C14_PhaseMonotone ==
  [][/\ \A i \in StarIds : stars'[i].t >= stars[i].t
     /\ ~DrawStep => \A i \in StarIds : stars'[i].t = stars[i].t]_vars


\* C15: configure is a full reset.  After any number of resizes the
\* transform is exactly the uniform scale by pixelScale, never a power of
\* it, and a resize to the viewport the surface already has leaves the
\* surface state as the resize before it left it.
C15_FullReset ==
  /\ [](xform = dpr)
  /\ [][(ResizeStep /\ vw' = vw /\ vh' = vh) =>
          (cw' = cw /\ ch' = ch /\ canvas' = canvas /\ xform' = xform)]_vars

\* the listener has run resize on a surface whose pixel scale is above 1,
\* so that a scale stacked on the one of the load would show
C15_Witness ==
  /\ nresizes > 0 /\ dpr > DprDen
  /\ xform = dpr /\ xform # ctxScale(dpr, dpr)


\* C16: the single loop of draw, which advances, wraps and draws each star
\* in turn, does what advancing and wrapping all stars first and drawing
\* all of them in insertion order afterwards would do.  Every tick draws
\* every star exactly once, at its position after drift and wrap and with
\* the alpha of its phase after the increment, after the clear and the
\* vignette and before the next tick is requested.
C16_LoopEquivalence ==
  [][DrawStep =>
       LET n == Len(stars)
       IN  /\ stars' = [i \in 1..n |-> advance(stars[i], dt', vw, vh)]
           /\ Len(frame') = n + 3
           /\ frame'[1].op = "clearRect"
           /\ frame'[2].op = "fillRect" /\ frame'[2].style = "vignette"
           /\ frame'[n + 3].op = "requestAnimationFrame"
           /\ \A i \in 1..n :
                /\ frame'[i + 2].op = "fill"
                /\ frame'[i + 2].x = stars'[i].x
                /\ frame'[i + 2].y = stars'[i].y
                /\ frame'[i + 2].r = stars'[i].r
                /\ frame'[i + 2].style = stars'[i].hue
                /\ frame'[i + 2].alpha = fillAlpha(starAlpha(stars'[i].t))]_vars

\* a tick with dt > 0 has drawn one star where it re-entered from the top
\* and another where it drifted to
C16_Witness ==
  /\ started /\ dt > 0 /\ Len(frame) = Len(stars) + 3
  /\ \E i \in StarIds :
       stars[i].y = -10 * PosScale /\ frame[i + 2].y = -10 * PosScale
  /\ \E i \in StarIds : stars[i].x < 0 /\ frame[i + 2].x = stars[i].x


\* C18 (as stated): the login overlay never sticks and never drops early.
\* Whatever the sequence of submits, the overlay is hidden once the 2400 ms
\* timer of the last submit has fired, and it is shown for as long as the
\* 2400 ms timer of any submit is still pending.
C18_OverlayWindow ==
  overlayShown <=> (\E k \in timers : k.fn = "hide")

====
